---- MODULE Spec2Model ----
(***************************************************************************)
(* Model of src/app.py: a Streamlit page that delegates translation to the *)
(* deep-translator GoogleTranslator client.                                *)
(*                                                                         *)
(* Python strings that the code inspects character by character (language  *)
(* names, labels, the text to translate) are sequences of code points.     *)
(* Strings that are only compared for equality (language codes, message    *)
(* texts, exception class names) are TLA+ strings.                         *)
(***************************************************************************)
EXTENDS Integers, Sequences, FiniteSets, TLC

VARIABLES
    cache,              \* st.cache_data entry of get_supported_languages
    widgets,            \* session widget state: text area and both selectboxes
    rendered,           \* the last pass reached the button (line 132)
    translate_clicked,  \* value of st.button in the last pass
    origin_options,     \* locals of the last pass of render_app
    target_options,
    source_code,
    target_code,
    ui,                 \* elements emitted by the last pass from line 134 on
    calls,              \* provider operations invoked during the last pass
    raised,             \* exception that left render_app in the last pass
    supported           \* the dict handed to the Option Builder (SpecOptions)

vars == <<cache, widgets, rendered, translate_clicked, origin_options,
          target_options, source_code, target_code, ui, calls, raised,
          supported>>

-----------------------------------------------------------------------------
(* Bounds of the model                                                     *)

MaxTextLen == 2
MaxNameLen == 2
MaxCatalog == 2

-----------------------------------------------------------------------------
(* Python str primitives, on sequences of code points                      *)

Underscore == 95
Space == 32

IsLower(c) == c \in 97..122
IsUpper(c) == c \in 65..90
IsCased(c) == IsLower(c) \/ IsUpper(c)
ToUpper(c) == IF IsLower(c) THEN c - 32 ELSE c
ToLower(c) == IF IsUpper(c) THEN c + 32 ELSE c

\* str.isspace for the ASCII range: space, \t \n \v \f \r and FS GS RS US
IsSpace(c) == c = Space \/ c \in 9..13 \/ c \in 28..31

\* raw_name.replace("_", " ")
ReplaceUnderscore(s) ==
    [i \in 1..Len(s) |-> IF s[i] = Underscore THEN Space ELSE s[i]]

\* str.title(): a cased character is upper-cased when the character before
\* it is uncased (or there is none) and lower-cased otherwise
Title(s) ==
    [i \in 1..Len(s) |->
        IF i > 1 /\ IsCased(s[i-1]) THEN ToLower(s[i]) ELSE ToUpper(s[i])]

\* str.strip(): drop leading and trailing whitespace
Strip(s) ==
    LET keep == {i \in 1..Len(s) : ~IsSpace(s[i])}
    IN  IF keep = {} THEN <<>>
        ELSE LET lo == CHOOSE i \in keep : \A j \in keep : i <= j
                 hi == CHOOSE i \in keep : \A j \in keep : j <= i
             IN  SubSeq(s, lo, hi)

\* Python's < on str: lexicographic by code point, a proper prefix is smaller
StrLess(a, b) ==
    \E k \in 1..(Len(b)) :
        /\ \A j \in 1..(k-1) : j <= Len(a) /\ a[j] = b[j]
        /\ k - 1 <= Len(a)
        /\ (k > Len(a) \/ a[k] < b[k])

-----------------------------------------------------------------------------
(* Option Builder                                                          *)

format_language_name(raw_name) == Title(ReplaceUnderscore(raw_name))

\* one step of the stable sort: item goes after every element whose key is
\* not greater than its own
InsertByLabel(acc, item) ==
    LET after == {i \in 1..Len(acc) : ~StrLess(item[1], acc[i][1])}
        pos   == IF after = {} THEN 0
                 ELSE CHOOSE i \in after : \A j \in after : j <= i
    IN  SubSeq(acc, 1, pos) \o <<item>> \o SubSeq(acc, pos + 1, Len(acc))

RECURSIVE SortedByLabel(_)
SortedByLabel(items) ==
    IF items = <<>> THEN <<>>
    ELSE InsertByLabel(SortedByLabel(SubSeq(items, 1, Len(items) - 1)),
                       items[Len(items)])

\* "Detectar automaticamente"
AutoLabel ==
    <<68, 101, 116, 101, 99, 116, 97, 114, 32, 97, 117, 116, 111, 109, 97,
      116, 105, 99, 97, 109, 101, 110, 116, 101>>

AutoOption == <<AutoLabel, "auto">>

\* the generator expression of lines 61-64 without the sort
build_language_options_unsorted(dict) ==
    LET items == [i \in 1..Len(dict) |->
                     <<format_language_name(dict[i][1]), dict[i][2]>>]
    IN  [origin |-> <<AutoOption>> \o items, target |-> items]

\* dict is supported.items(): the (name, code) pairs in iteration order
build_language_options(dict) ==
    LET items == [i \in 1..Len(dict) |->
                     <<format_language_name(dict[i][1]), dict[i][2]>>]
        sorted_items == SortedByLabel(items)
    IN  [origin |-> <<AutoOption>> \o sorted_items, target |-> sorted_items]

\* find_index of render_app, 0-based as in the source
find_index(options, code) ==
    LET hits == {i \in 1..Len(options) : options[i][2] = code}
    IN  IF hits = {} THEN 0
        ELSE (CHOOSE i \in hits : \A j \in hits : i <= j) - 1

-----------------------------------------------------------------------------
(* Provider boundary: what GoogleTranslator does in one pass is an input   *)

NameEn == <<101, 110, 103, 108, 105, 115, 104>>
NamePt == <<112, 111, 114, 116, 117, 103, 117, 101, 115, 101>>
NameZh == <<99, 104, 105, 110, 101, 115, 101, 95, 40, 115, 105, 109, 112,
            108, 105, 102, 105, 101, 100, 41>>
NameAuto == <<97, 117, 116, 111>>

\* dicts the provider may answer with; the last one carries the code "auto"
Catalogs ==
    { << <<NamePt, "pt">>, <<NameEn, "en">> >>,
      << <<NameZh, "zh-CN">>, <<NameEn, "en">>, <<NamePt, "pt">> >>,
      << <<NamePt, "pt">>, <<NameAuto, "auto">> >> }

ListErrors == {"TypeError", "ConnectionError"}
TranslateErrors == {"TypeError", "RequestError"}

TextAlphabet == {Space, 97}

RECURSIVE SeqsUpTo(_, _)
SeqsUpTo(S, n) ==
    IF n = 0 THEN {<<>>}
    ELSE LET shorter == SeqsUpTo(S, n - 1)
         IN  shorter \cup {Append(s, c) : s \in shorter, c \in S}

\* what the user may type: every short text over the alphabet, a lone newline
\* and "\ta\n"
Texts == SeqsUpTo(TextAlphabet, MaxTextLen) \cup {<<10>>, <<9, 97, 10>>}

\* strings the provider may return as a translation
Translations == {<<111, 108, 225>>, <<Space, 97>>}

Returned(v) == [ok |-> TRUE, value |-> v, error |-> "none"]
Raising(e) == [ok |-> FALSE, value |-> <<>>, error |-> e]

ListOutcomes == {Returned(c) : c \in Catalogs} \cup {Raising(e) : e \in ListErrors}
TranslateOutcomes ==
    {Returned(t) : t \in Translations} \cup {Raising(e) : e \in TranslateErrors}

\* one pass's provider: the class-level accessor, the instance-level accessor
\* and the translate operation
Providers ==
    [classList : ListOutcomes, instList : ListOutcomes, translate : TranslateOutcomes]

\* a provider operation as the pass saw it: what was asked and what came back
\* the providers that differ in an answer some pass can observe: the
\* instance-level accessor is fixed unless the class-level one raises
\* TypeError, the translate operation is fixed unless the button was pressed
ProvidersFor(clicked) ==
    {p \in Providers :
        /\ p.classList # Raising("TypeError") => p.instList = Raising("ConnectionError")
        /\ ~clicked => p.translate = Raising("RequestError")}

Call(op, args, out) == [op |-> op, args |-> args, out |-> out]

IsListCall(c) == c.op \in {"class_get_supported_languages", "instance_get_supported_languages"}

-----------------------------------------------------------------------------
(* Language Catalog Loader                                                 *)

\* body of get_supported_languages with "except Exception" in place of
\* "except TypeError"
load_languages_catch_all(prov) ==
    IF prov.classList.ok
    THEN [calls |-> <<Call("class_get_supported_languages", <<>>, prov.classList)>>,
          out |-> prov.classList]
    ELSE [calls |-> <<Call("class_get_supported_languages", <<>>, prov.classList),
                      Call("instance_get_supported_languages", <<>>, prov.instList)>>,
          out |-> prov.instList]

\* body of get_supported_languages (lines 38-43)
load_languages(prov) ==
    IF prov.classList.ok \/ prov.classList.error # "TypeError"
    THEN [calls |-> <<Call("class_get_supported_languages", <<>>, prov.classList)>>,
          out |-> prov.classList]
    ELSE [calls |-> <<Call("class_get_supported_languages", <<>>, prov.classList),
                      Call("instance_get_supported_languages", <<>>, prov.instList)>>,
          out |-> prov.instList]

EmptyCache == [filled |-> FALSE, value |-> <<>>]

\* get_supported_languages without the st.cache_data decorator
get_supported_languages_uncached(c, prov) ==
    LET r == load_languages(prov)
    IN  [calls |-> r.calls, out |-> r.out, cache |-> c]

\* the decorated function: a hit returns the stored value and does not run
\* the body; a miss runs it and stores the value it returns, nothing when it
\* raises
get_supported_languages(c, prov) ==
    IF c.filled
    THEN [calls |-> <<>>, out |-> Returned(c.value), cache |-> c]
    ELSE LET r == load_languages(prov)
         IN  [calls |-> r.calls, out |-> r.out,
              cache |-> IF r.out.ok THEN [filled |-> TRUE, value |-> r.out.value]
                        ELSE c]

-----------------------------------------------------------------------------
(* Translation Invoker                                                     *)

\* translate_text handing the provider the stripped text
translate_text_stripped(text, source, target, prov) ==
    [calls |-> <<Call("translate", <<Strip(text), source, target>>, prov.translate)>>,
     out |-> prov.translate]

\* translate_text (lines 71-78)
translate_text(text, source, target, prov) ==
    [calls |-> <<Call("translate", <<text, source, target>>, prov.translate)>>,
     out |-> prov.translate]

-----------------------------------------------------------------------------
(* Presentation Layer                                                      *)

Element(kind, msg, value) == [kind |-> kind, msg |-> msg, value |-> value]

EmptyInputWarning == Element("warning", "Por favor, digite um texto para traduzir.", <<>>)
AutoTargetError ==
    Element("error", "O idioma de destino nao pode ser 'auto'. Selecione um idioma especifico.", <<>>)
SameLanguageInfo ==
    Element("info", "Os idiomas de origem e destino sao iguais. Exibindo o texto original.", <<>>)
SuccessMessage == Element("success", "Traducao concluida!", <<>>)
FailureMessage ==
    Element("error", "Ocorreu um erro ao traduzir. Verifique sua conexao com a internet e tente novamente.", <<>>)
Expander == Element("expander", "Detalhes tecnicos", <<>>)
Footer == Element("caption", "Feito com Streamlit e deep-translator (GoogleTranslator).", <<>>)
TranslationArea(value) == Element("text_area", "Traducao", value)
ExceptionDetail(exc) == Element("exception", exc, <<>>)

\* line 135 with the strip() left out
blank_input_unstripped(text) == Len(text) = 0

\* line 135: not text_to_translate.strip()
blank_input(text) == Len(Strip(text)) = 0

\* line 139 comparing against the wrong sentinel
auto_target_wrong_sentinel(target) == target = "automatic"

\* line 139
auto_target(target) == target = "auto"

\* line 143
same_language(source, target) == source # "auto" /\ source = target

\* lines 148-158 with st.success issued before the provider answers
show_outcome_success_first(out) ==
    IF out.ok
    THEN <<SuccessMessage, TranslationArea(out.value)>>
    ELSE <<SuccessMessage, FailureMessage, Expander, ExceptionDetail(out.error)>>

\* lines 152-158: what the try block and its handler emit for a provider answer
show_outcome(out) ==
    IF out.ok
    THEN <<SuccessMessage, TranslationArea(out.value)>>
    ELSE <<FailureMessage, Expander, ExceptionDetail(out.error)>>

\* lines 134-163 with the two validation checks in the opposite order
on_submit_target_first(clicked, text, source, target, prov) ==
    IF ~clicked THEN [ui |-> <<Footer>>, calls |-> <<>>]
    ELSE IF auto_target(target)
    THEN [ui |-> <<AutoTargetError>>, calls |-> <<>>]
    ELSE IF blank_input(text)
    THEN [ui |-> <<EmptyInputWarning>>, calls |-> <<>>]
    ELSE IF same_language(source, target)
    THEN [ui |-> <<SameLanguageInfo, TranslationArea(text)>>, calls |-> <<>>]
    ELSE LET t == translate_text(text, source, target, prov)
         IN  [ui |-> show_outcome(t.out) \o <<Footer>>, calls |-> t.calls]

\* lines 134-163 echoing the stripped text
on_submit_echo_stripped(clicked, text, source, target, prov) ==
    IF ~clicked THEN [ui |-> <<Footer>>, calls |-> <<>>]
    ELSE IF blank_input(text)
    THEN [ui |-> <<EmptyInputWarning>>, calls |-> <<>>]
    ELSE IF auto_target(target)
    THEN [ui |-> <<AutoTargetError>>, calls |-> <<>>]
    ELSE IF same_language(source, target)
    THEN [ui |-> <<SameLanguageInfo, TranslationArea(Strip(text))>>, calls |-> <<>>]
    ELSE LET t == translate_text(text, source, target, prov)
         IN  [ui |-> show_outcome(t.out) \o <<Footer>>, calls |-> t.calls]

\* lines 134-163: the submit branch of render_app and the footer
on_submit(clicked, text, source, target, prov) ==
    IF ~clicked THEN [ui |-> <<Footer>>, calls |-> <<>>]
    ELSE IF blank_input(text)
    THEN [ui |-> <<EmptyInputWarning>>, calls |-> <<>>]
    ELSE IF auto_target(target)
    THEN [ui |-> <<AutoTargetError>>, calls |-> <<>>]
    ELSE IF same_language(source, target)
    THEN [ui |-> <<SameLanguageInfo, TranslationArea(text)>>, calls |-> <<>>]
    ELSE LET t == translate_text(text, source, target, prov)
         IN  [ui |-> show_outcome(t.out) \o <<Footer>>, calls |-> t.calls]

NoSelection == <<>>

\* st.selectbox: the session's selection when it is one of the options, the
\* option at the default index otherwise, None (here NoSelection) with no options
selectbox(options, selected, index) ==
    IF options = <<>> THEN NoSelection
    ELSE IF \E i \in 1..Len(options) : options[i] = selected THEN selected
    ELSE options[index + 1]

FreshWidgets == [text |-> <<>>, source |-> NoSelection, target |-> NoSelection]

\* render_app (lines 88-163): one pass over the session's widget state w, the
\* button value, the cache c and the provider of this pass
render_app(w, clicked, c, prov) ==
    LET loaded == get_supported_languages(c, prov)
    IN  IF ~loaded.out.ok
        THEN \* line 92 raises: nothing below it runs
             [cache |-> loaded.cache, widgets |-> w, rendered |-> FALSE,
              supported |-> <<>>, origin_options |-> <<>>, target_options |-> <<>>,
              source_code |-> "", target_code |-> "",
              ui |-> <<>>, calls |-> loaded.calls, raised |-> loaded.out.error]
        ELSE
        LET opts == build_language_options(loaded.out.value)
            src  == selectbox(opts.origin, w.source, find_index(opts.origin, "auto"))
            tgt  == selectbox(opts.target, w.target, find_index(opts.target, "en"))
        IN  IF tgt = NoSelection
            THEN \* line 124 unpacks None
                 [cache |-> loaded.cache, widgets |-> [w EXCEPT !.source = src],
                  rendered |-> FALSE, supported |-> loaded.out.value,
                  origin_options |-> opts.origin, target_options |-> opts.target,
                  source_code |-> src[2], target_code |-> "",
                  ui |-> <<>>, calls |-> loaded.calls, raised |-> "TypeError"]
            ELSE
            LET sub == on_submit(clicked, w.text, src[2], tgt[2], prov)
            IN  [cache |-> loaded.cache,
                 widgets |-> [w EXCEPT !.source = src, !.target = tgt],
                 rendered |-> TRUE, supported |-> loaded.out.value,
                 origin_options |-> opts.origin, target_options |-> opts.target,
                 source_code |-> src[2], target_code |-> tgt[2],
                 ui |-> sub.ui, calls |-> loaded.calls \o sub.calls,
                 raised |-> "none"]

-----------------------------------------------------------------------------
(* The page as a state machine: every user interaction reruns the script   *)

Pass(w, clicked, prov) ==
    \E r \in {render_app(w, clicked, cache, prov)} :
        /\ cache' = r.cache
        /\ widgets' = r.widgets
        /\ rendered' = r.rendered
        /\ translate_clicked' = clicked
        /\ supported' = r.supported
        /\ origin_options' = r.origin_options
        /\ target_options' = r.target_options
        /\ source_code' = r.source_code
        /\ target_code' = r.target_code
        /\ ui' = r.ui
        /\ calls' = r.calls
        /\ raised' = r.raised

Init ==
    /\ cache = EmptyCache
    /\ widgets = FreshWidgets
    /\ rendered = FALSE
    /\ translate_clicked = FALSE
    /\ supported = <<>>
    /\ origin_options = <<>>
    /\ target_options = <<>>
    /\ source_code = ""
    /\ target_code = ""
    /\ ui = <<>>
    /\ calls = <<>>
    /\ raised = "none"

\* the page is opened or reloaded: a new session, no widget state
LoadPage ==
    \E prov \in ProvidersFor(FALSE) : Pass(FreshWidgets, FALSE, prov)

\* the user changes the text area
EditText ==
    /\ rendered
    /\ \E t \in Texts, prov \in ProvidersFor(FALSE) :
           /\ t # widgets.text
           /\ Pass([widgets EXCEPT !.text = t], FALSE, prov)

\* the user picks another source language
SelectSource ==
    /\ rendered
    /\ \E i \in 1..Len(origin_options), prov \in ProvidersFor(FALSE) :
           /\ origin_options[i] # widgets.source
           /\ Pass([widgets EXCEPT !.source = origin_options[i]], FALSE, prov)

\* the user picks another target language
SelectTarget ==
    /\ rendered
    /\ \E i \in 1..Len(target_options), prov \in ProvidersFor(FALSE) :
           /\ target_options[i] # widgets.target
           /\ Pass([widgets EXCEPT !.target = target_options[i]], FALSE, prov)

\* the user presses "Traduzir"
ClickTranslate ==
    /\ rendered
    /\ \E prov \in ProvidersFor(TRUE) : Pass(widgets, TRUE, prov)

Next ==
    \/ LoadPage
    \/ EditText
    \/ SelectSource
    \/ SelectTarget
    \/ ClickTranslate

Spec == Init /\ [][Next]_vars

-----------------------------------------------------------------------------
(* The Option Builder alone, over every bounded dict                       *)

NameAlphabet == {97, Underscore}

\* "detectar_automaticamente"
NameDetectar ==
    <<100, 101, 116, 101, 99, 116, 97, 114, 95, 97, 117, 116, 111, 109, 97,
      116, 105, 99, 97, 109, 101, 110, 116, 101>>

\* keys of the dict: every short name over the alphabet; "A" and "aA", which
\* title() maps onto the labels of "a" and "aa"; " ", whose label is that of
\* "_"; and the two keys nearest to the auto-detect label
Names ==
    (SeqsUpTo(NameAlphabet, MaxNameLen) \ {<<>>})
        \cup {<<65>>, <<97, 65>>, <<Space>>, NameDetectar, AutoLabel}

Codes == {"en", "auto"}

RECURSIVE DictsUpTo(_)
DictsUpTo(n) ==
    IF n = 0 THEN {<<>>}
    ELSE LET shorter == DictsUpTo(n - 1)
         IN  shorter \cup
             {Append(d, <<name, code>>) :
                 d \in {e \in shorter : Len(e) = n - 1},
                 name \in Names, code \in Codes}

UniqueKeys(d) == \A i, j \in 1..Len(d) : d[i][1] = d[j][1] => i = j

Dicts == {d \in DictsUpTo(MaxCatalog) : UniqueKeys(d)}

InitOptions ==
    /\ supported \in Dicts
    /\ cache = EmptyCache
    /\ widgets = FreshWidgets
    /\ rendered = FALSE
    /\ translate_clicked = FALSE
    /\ origin_options = <<>>
    /\ target_options = <<>>
    /\ source_code = ""
    /\ target_code = ""
    /\ ui = <<>>
    /\ calls = <<>>
    /\ raised = "none"

BuildOptions ==
    /\ origin_options = <<>>
    /\ origin_options' = build_language_options(supported).origin
    /\ target_options' = build_language_options(supported).target
    /\ UNCHANGED <<cache, widgets, rendered, translate_clicked, source_code,
                   target_code, ui, calls, raised, supported>>

NextOptions == BuildOptions

SpecOptions == InitOptions /\ [][NextOptions]_vars

-----------------------------------------------------------------------------
(* Properties                                                              *)

\* the pass just made handled a press of the button (line 134 was reached)
Submitted == translate_clicked /\ rendered

\* the text area holds nothing but whitespace
WhitespaceOnly(text) == \A i \in 1..Len(text) : IsSpace(text[i])

TranslateCalls == {i \in 1..Len(calls) : calls[i].op = "translate"}
ListCalls == {i \in 1..Len(calls) : IsListCall(calls[i])}

Shows(kind) == \E i \in 1..Len(ui) : ui[i].kind = kind

\* C1: a submit of empty or whitespace-only text shows the warning and
\* returns, whatever the two codes are, and calls no provider translate
C1_BlankInputRejected ==
    (Submitted /\ WhitespaceOnly(widgets.text)) =>
        /\ ui = <<EmptyInputWarning>>
        /\ TranslateCalls = {}

C1_Witness ==
    /\ Submitted
    /\ widgets.text = <<Space, Space>>
    /\ source_code = "pt"
    /\ target_code = "en"
    /\ ui = <<EmptyInputWarning>>
    /\ calls = <<>>

\* C2: no translate call ever carries the target "auto"; a submit whose
\* target is "auto" makes no translate call
C2_TargetNeverAuto ==
    /\ \A i \in TranslateCalls : calls[i].args[3] # "auto"
    /\ (Submitted /\ target_code = "auto") => TranslateCalls = {}

C2_Witness ==
    /\ Submitted
    /\ target_code = "auto"
    /\ source_code = "pt"
    /\ ~WhitespaceOnly(widgets.text)
    /\ TranslateCalls = {}

\* C3 as stated: a submit with target "auto" shows an error whatever the
\* text is, and records no provider call
C3_ErrorWhateverTheText ==
    (Submitted /\ target_code = "auto") =>
        /\ Shows("error")
        /\ calls = <<>>

\* C3 amended: a submit with target "auto" records no provider call; it
\* shows the target error when the text is not whitespace-only and the
\* empty-input warning (and no error) when it is
C3_ErrorUnlessBlank ==
    (Submitted /\ target_code = "auto") =>
        /\ calls = <<>>
        /\ ui = IF WhitespaceOnly(widgets.text)
                THEN <<EmptyInputWarning>>
                ELSE <<AutoTargetError>>

C3_Witness ==
    /\ Submitted
    /\ target_code = "auto"
    /\ source_code = "auto"
    /\ ui = <<AutoTargetError>>

\* C4 as stated: on a submit with equal codes other than "auto" no
\* translate call is made and the text shown as the translation is the
\* input text
C4_EchoAlways ==
    (Submitted /\ source_code = target_code /\ source_code # "auto") =>
        /\ TranslateCalls = {}
        /\ \E i \in 1..Len(ui) : ui[i] = TranslationArea(widgets.text)

\* C4 amended: on a submit with equal codes other than "auto" no translate
\* call is made, and when the text is not whitespace-only the page shows
\* the input text, unmodified, as the translation
C4_EchoUnlessBlank ==
    (Submitted /\ source_code = target_code /\ source_code # "auto") =>
        /\ TranslateCalls = {}
        /\ ~WhitespaceOnly(widgets.text) =>
               ui = <<SameLanguageInfo, TranslationArea(widgets.text)>>

C4_Witness ==
    /\ Submitted
    /\ source_code = "pt"
    /\ target_code = "pt"
    /\ widgets.text = <<Space, 97>>
    /\ ui = <<SameLanguageInfo, TranslationArea(<<Space, 97>>)>>
    /\ calls = <<>>

\* C5: a failure of a provider operation during a pass, of the translate
\* call or of the catalog load, does not leave render_app: the pass shows a
\* message and the widgets stay on the page
C5_FailuresCaught ==
    (calls # <<>> /\ ~calls[Len(calls)].out.ok) =>
        /\ raised = "none"
        /\ Shows("error")
        /\ rendered

\* C6: when a validated submit's translate call raises, the pass ends
\* normally showing the generic failure message and the raised error in an
\* expander, and no success message or translation
C6_FailureShown ==
    \A i \in TranslateCalls :
        ~calls[i].out.ok =>
            /\ ui = <<FailureMessage, Expander, ExceptionDetail(calls[i].out.error),
                      Footer>>
            /\ raised = "none"
            /\ rendered

C6_Witness ==
    /\ Submitted
    /\ \E i \in TranslateCalls : calls[i].out = Raising("TypeError")
    /\ ui[3] = ExceptionDetail("TypeError")

\* the last pass obtained a catalog from get_supported_languages
LoadReturned == raised = "none" /\ supported # <<>>
\* the last pass's call of get_supported_languages raised
LoadFailed == Len(calls) \in ListCalls /\ ~calls[Len(calls)].out.ok

\* C7: after a pass in which get_supported_languages returned a catalog the
\* next pass gets the same catalog and invokes no list-languages operation;
\* after a pass in which it raised the cache is empty and the next pass
\* invokes the provider again
C7_Memoized ==
    [][ /\ LoadReturned => (supported' = supported /\ ListCalls' = {})
        /\ LoadFailed => (~cache.filled /\ 1 \in ListCalls') ]_vars

C7_Witness ==
    /\ Submitted
    /\ cache.filled
    /\ supported = cache.value
    /\ ListCalls = {}

\* C9: the class-level accessor is tried first; the instance-level one is
\* tried exactly when the class-level one raised TypeError; any other error
\* of the class-level one leaves the loader as it is
C9_AccessorOrder ==
    /\ ListCalls # {} => calls[1].op = "class_get_supported_languages"
    /\ \A i \in ListCalls :
           calls[i].op = "instance_get_supported_languages" =>
               i = 2 /\ calls[1].out = Raising("TypeError")
    /\ (ListCalls # {} /\ calls[1].out = Raising("TypeError")) =>
           2 \in ListCalls /\ calls[2].op = "instance_get_supported_languages"
    /\ (ListCalls # {} /\ ~calls[1].out.ok /\ calls[1].out.error # "TypeError") =>
           raised = calls[1].out.error /\ Len(calls) = 1

C9_Witness ==
    /\ Len(calls) = 2
    /\ calls[1].out = Raising("TypeError")
    /\ calls[2].op = "instance_get_supported_languages"
    /\ calls[2].out.ok
    /\ rendered

\* the conditions under which lines 148-150 are reached
Translates ==
    /\ Submitted
    /\ ~WhitespaceOnly(widgets.text)
    /\ target_code # "auto"
    /\ ~(source_code # "auto" /\ source_code = target_code)

\* C10: a pass calls translate at most once and only on a submit that
\* passes the three checks; then it calls it exactly once with the
\* unmodified text and the selected codes, and on success shows the success
\* message and the returned string
C10_TranslateOnce ==
    /\ Cardinality(TranslateCalls) <= 1
    /\ TranslateCalls # {} <=> Translates
    /\ \A i \in TranslateCalls :
           /\ calls[i].args = <<widgets.text, source_code, target_code>>
           /\ calls[i].out.ok =>
                  ui = <<SuccessMessage, TranslationArea(calls[i].out.value), Footer>>

C10_Witness ==
    /\ Submitted
    /\ source_code = "auto"
    /\ target_code = "pt"
    /\ \E i \in TranslateCalls :
           /\ calls[i].args = << <<Space, 97>>, "auto", "pt" >>
           /\ calls[i].out = Returned(<<111, 108, 225>>)
    /\ ui = <<SuccessMessage, TranslationArea(<<111, 108, 225>>), Footer>>

\* build_language_options has run on the dict
OptionsBuilt == origin_options # <<>>

SortedAscending(options) ==
    \A i, j \in 1..Len(options) : i < j => ~StrLess(options[j][1], options[i][1])

\* C8: for every dict in every iteration order the target options are
\* sorted ascending by label, the origin options are the auto-detect entry
\* followed by the target options, and that entry is no target option
C8_Options ==
    OptionsBuilt =>
        /\ SortedAscending(target_options)
        /\ Len(target_options) = Len(supported)
        /\ origin_options = <<AutoOption>> \o target_options
        /\ Len(origin_options) = Len(target_options) + 1
        /\ origin_options[1][2] = "auto"
        /\ \A i \in 1..Len(target_options) : target_options[i] # AutoOption

C8_Witness ==
    /\ OptionsBuilt
    /\ Len(supported) = 2
    /\ supported[1] = <<AutoLabel, "auto">>
    /\ StrLess(format_language_name(supported[2][1]),
               format_language_name(supported[1][1]))
    /\ target_options[2][2] = "auto"

====
